---- MODULE Spec2Model ----
(***************************************************************************)
(* A model of FileViewer (src/src/file_viewer.py): one viewing session on  *)
(* a path (missing, a directory, a regular file or a symlink to one).      *)
(* load() runs on the caller's thread; for a file larger than 2*chunk_size *)
(* it starts the background thread _background_load, which fills the line  *)
(* cache chunk by chunk while the caller's thread calls get_line_count(),  *)
(* get_line() and get_content().                                           *)
(* The UI's _view_file (src/src/viewer_ui.py) drives a session: it loads,  *)
(* reads the content once and scrolls; it may create a second session      *)
(* while the thread of the first is still running.                         *)
(*                                                                         *)
(* Bytes are numbers 0..255, decoded text is a sequence of code points, a  *)
(* line is a sequence of code points.  The cache is a function from the    *)
(* written indices to lines, like the dict of the source.                  *)
(***************************************************************************)
EXTENDS Integers, Sequences, FiniteSets, TLC

VARIABLES
    file,        \* the bytes of the file on disk (<<>> when there is no file)
    file_type,   \* self.file_type, chosen once by __init__
    entries,     \* the names of a directory's children, in iterdir() order
    starts,      \* how many times loading_thread.start() has been called
    loads,       \* how many times load() has been called
    content,     \* self.content: None or the bytes read by load()
    encoding,    \* self.encoding: None or an encoding name
    cache,       \* self.cache: dict index -> line
    load_queue,  \* self.load_queue: the errors put by the background thread
    loading_thread, \* self.loading_thread: "none", "alive", "finished"
    load_state,  \* position of the caller in load(): "new", "detected" (line 47),
                 \* "returned", "raised"
    bpc,         \* position of the background thread in _background_load
    offset,      \* local offset of _background_load
    line_num,    \* local line_num of _background_load
    buffer,      \* local buffer of _background_load: <<>> or <<pending tail>>
    lines,       \* local lines of the chunk being processed
    k,           \* position of the for loop over lines[:-1] (1-based)
    rpc,         \* position of the caller inside get_content()
    rn,          \* get_content: the value of range(self.get_line_count())
    ri,          \* get_content: loop index i
    rlines,      \* get_content: local list lines
    ret,         \* the last value returned to the caller by a read operation
    other,       \* <<>> or <<s>>: a second session alive at the same time
    ui_pc,       \* position of the UI in _view_file: "list", "reading", "closed"
    scroll_position, \* self.scroll_position of the UI
    visible_lines    \* local visible_lines of _view_file

vars == <<file, file_type, entries, starts, loads, content, encoding, cache, load_queue, loading_thread, load_state,
          bpc, offset, line_num, buffer, lines, k, rpc, rn, ri, rlines, ret,
          other, ui_pc, scroll_position, visible_lines>>

pathvars == <<file, file_type, entries>>
uivars == <<ui_pc, scroll_position, visible_lines>>
bgvars == <<bpc, offset, line_num, buffer, lines, k>>
rdvars == <<rpc, rn, ri, rlines>>

\* Python's None: for an optional bytes or str value (a sequence here), and
\* for the optional encoding name (a string here).
None == <<-1>>

NoEncoding == "None"

(***************************************************************************)
(* Sizes.  chunk_size is 4096 in the source; the model scales it down so   *)
(* that every placement of a line break relative to a chunk boundary is    *)
(* enumerated.  A file is "large" when len > 2*chunk_size.                 *)
(***************************************************************************)
chunk_size == 2

MaxExtra == 1

MaxFileLen == 2 * chunk_size + MaxExtra

bytes_per_line == 16

ConfidenceThreshold == 70

\* 'a', '\n', and the two bytes of the UTF-8 encoding of U+00E9
Bytes == {97, 10, 195, 169}

AllFiles == UNION {[1..n -> Bytes] : n \in 0..MaxFileLen}

Min(a, b) == IF a < b THEN a ELSE b

(***************************************************************************)
(* bytes.decode(encoding).  The result is [err, text]: err is "ok",        *)
(* "UnicodeDecodeError", "LookupError" (an encoding name for which Python  *)
(* has no codec) or "TypeError" (the encoding is None).                    *)
(* The names are those the detector gives: "ascii" decodes bytes below 128 *)
(* only; "ISO-8859-1", "TIS-620" and "MacRoman" decode one code point per  *)
(* byte, by the table of the codec; "EUC-TW" has no codec in Python.       *)
(***************************************************************************)
Encodings == {"utf-8", "ascii", "ISO-8859-1", "TIS-620", "MacRoman", "EUC-TW"}

\* the code point of each byte 128..255 in the codec tis_620 (-1: undefined)
Tis620High ==
    <<128, 129, 130, 131, 132, 133, 134, 135, 136, 137, 138, 139,
      140, 141, 142, 143, 144, 145, 146, 147, 148, 149, 150, 151,
      152, 153, 154, 155, 156, 157, 158, 159, -1, 3585, 3586, 3587,
      3588, 3589, 3590, 3591, 3592, 3593, 3594, 3595, 3596, 3597, 3598, 3599,
      3600, 3601, 3602, 3603, 3604, 3605, 3606, 3607, 3608, 3609, 3610, 3611,
      3612, 3613, 3614, 3615, 3616, 3617, 3618, 3619, 3620, 3621, 3622, 3623,
      3624, 3625, 3626, 3627, 3628, 3629, 3630, 3631, 3632, 3633, 3634, 3635,
      3636, 3637, 3638, 3639, 3640, 3641, 3642, -1, -1, -1, -1, 3647,
      3648, 3649, 3650, 3651, 3652, 3653, 3654, 3655, 3656, 3657, 3658, 3659,
      3660, 3661, 3662, 3663, 3664, 3665, 3666, 3667, 3668, 3669, 3670, 3671,
      3672, 3673, 3674, 3675, -1, -1, -1, -1>>

\* the code point of each byte 128..255 in the codec mac_roman
MacRomanHigh ==
    <<196, 197, 199, 201, 209, 214, 220, 225, 224, 226, 228, 227,
      229, 231, 233, 232, 234, 235, 237, 236, 238, 239, 241, 243,
      242, 244, 246, 245, 250, 249, 251, 252, 8224, 176, 162, 163,
      167, 8226, 182, 223, 174, 169, 8482, 180, 168, 8800, 198, 216,
      8734, 177, 8804, 8805, 165, 181, 8706, 8721, 8719, 960, 8747, 170,
      186, 937, 230, 248, 191, 161, 172, 8730, 402, 8776, 8710, 171,
      187, 8230, 160, 192, 195, 213, 338, 339, 8211, 8212, 8220, 8221,
      8216, 8217, 247, 9674, 255, 376, 8260, 8364, 8249, 8250, 64257, 64258,
      8225, 183, 8218, 8222, 8240, 194, 202, 193, 203, 200, 205, 206,
      207, 204, 211, 212, 63743, 210, 218, 219, 217, 305, 710, 732,
      175, 728, 729, 730, 184, 733, 731, 711>>

\* a charmap codec: bytes below 128 are themselves, the others by the table
DecodeCharmap(b, high) ==
    IF \E i \in 1..Len(b) : b[i] >= 128 /\ high[b[i] - 127] = -1
    THEN [err |-> "UnicodeDecodeError", text |-> <<>>]
    ELSE [err |-> "ok",
          text |-> [i \in 1..Len(b) |->
                       IF b[i] < 128 THEN b[i] ELSE high[b[i] - 127]]]

RECURSIVE ValidUtf8(_)
ValidUtf8(b) ==
    IF b = <<>> THEN TRUE
    ELSE IF b[1] < 128 THEN ValidUtf8(Tail(b))
    ELSE IF b[1] \in 194..223 /\ Len(b) >= 2 /\ b[2] \in 128..191
         THEN ValidUtf8(SubSeq(b, 3, Len(b)))
    ELSE FALSE

RECURSIVE DecodeUtf8(_)
DecodeUtf8(b) ==
    IF b = <<>> THEN <<>>
    ELSE IF b[1] < 128 THEN <<b[1]>> \o DecodeUtf8(Tail(b))
    ELSE <<(b[1] - 192) * 64 + (b[2] - 128)>> \o DecodeUtf8(SubSeq(b, 3, Len(b)))

Decode(b, enc) ==
    CASE enc = "utf-8" ->
           IF ValidUtf8(b) THEN [err |-> "ok", text |-> DecodeUtf8(b)]
           ELSE [err |-> "UnicodeDecodeError", text |-> <<>>]
      [] enc = "ascii" ->
           IF \A i \in 1..Len(b) : b[i] < 128 THEN [err |-> "ok", text |-> b]
           ELSE [err |-> "UnicodeDecodeError", text |-> <<>>]
      [] enc = "ISO-8859-1" -> [err |-> "ok", text |-> b]
      [] enc = "TIS-620" -> DecodeCharmap(b, Tis620High)
      [] enc = "MacRoman" -> DecodeCharmap(b, MacRomanHigh)
      [] enc = NoEncoding -> [err |-> "TypeError", text |-> <<>>]
      [] OTHER -> [err |-> "LookupError", text |-> <<>>]

(***************************************************************************)
(* str.splitlines() and str.join().                                        *)
(***************************************************************************)
LineBreaks == {10, 11, 12, 13, 28, 29, 30, 133, 8232, 8233}

RECURSIVE SplitFrom(_, _, _)
SplitFrom(t, i, cur) ==
    IF i > Len(t) THEN (IF cur = <<>> THEN <<>> ELSE <<cur>>)
    ELSE IF t[i] \in LineBreaks
         THEN <<cur>> \o SplitFrom(t,
                  IF t[i] = 13 /\ i < Len(t) /\ t[i + 1] = 10 THEN i + 2 ELSE i + 1,
                  <<>>)
    ELSE SplitFrom(t, i + 1, Append(cur, t[i]))

splitlines(t) == SplitFrom(t, 1, <<>>)

RECURSIVE join(_, _)
join(sep, ls) ==
    IF ls = <<>> THEN <<>>
    ELSE IF Len(ls) = 1 THEN ls[1]
    ELSE ls[1] \o sep \o join(sep, Tail(ls))


(***************************************************************************)
(* The line cache (a dict) and its two readers.                            *)
(***************************************************************************)
EmptyCache == [i \in {} |-> <<>>]

Max(S) == CHOOSE m \in S : \A x \in S : x <= m

CacheSet(c, i, v) == [j \in (DOMAIN c) \cup {i} |-> IF j = i THEN v ELSE c[j]]

\* a get_line that answers for the next unwritten index with the pending tail
get_line_pending(c, i) ==
    IF i \in DOMAIN c THEN c[i]
    ELSE IF i = line_num /\ buffer # <<>> THEN buffer[1]
    ELSE None

get_line(c, i) == IF i \in DOMAIN c THEN c[i] ELSE None

\* a get_line_count that is off by one
get_line_count_plus(c) == IF DOMAIN c # {} THEN Max(DOMAIN c) + 2 ELSE 0

get_line_count(c) == IF DOMAIN c # {} THEN Max(DOMAIN c) + 1 ELSE 0

(***************************************************************************)
(* chardet.detect: an external library.  Its answer is an encoding name    *)
(* (or None, with confidence 0) and a confidence, here in percent.         *)
(***************************************************************************)
Confidences == {ConfidenceThreshold, 99, 100}

DetectResults ==
    [encoding : Encodings, confidence : Confidences]
        \cup {[encoding |-> NoEncoding, confidence |-> 0]}

_detect_encoding(c, r) ==
    IF c = <<>> THEN NoEncoding
    ELSE IF r.confidence > ConfidenceThreshold THEN r.encoding
    ELSE NoEncoding

BgEncoding(r) ==
    IF r.confidence > ConfidenceThreshold THEN r.encoding ELSE "utf-8"

(***************************************************************************)
(* _format_hex_view                                                        *)
(***************************************************************************)
\* the digits of "%02X"
HexDigitUpper(d) == IF d < 10 THEN 48 + d ELSE 55 + d

\* the digits of "x" formatting
HexDigit(d) == IF d < 10 THEN 48 + d ELSE 87 + d

RECURSIVE ToHex(_)
ToHex(n) == IF n < 16 THEN <<HexDigit(n)>> ELSE Append(ToHex(n \div 16), HexDigit(n % 16))

RECURSIVE Repeat(_, _)
Repeat(ch, n) == IF n <= 0 THEN <<>> ELSE <<ch>> \o Repeat(ch, n - 1)

\* f"{n:0{w}x}"
HexPad(n, w) == Repeat(48, w - Len(ToHex(n))) \o ToHex(n)

\* f"{s:<{w}}"
LJust(s, w) == s \o Repeat(32, w - Len(s))

HexRow(c, i, bpl) ==
    LET chunk == SubSeq(c, i + 1, Min(i + bpl, Len(c)))
        hex_line == join(<<32>>, [j \in 1..Len(chunk) |-> HexPad(chunk[j], 2)])
        ascii_line == [j \in 1..Len(chunk) |->
                          IF 32 <= chunk[j] /\ chunk[j] <= 126 THEN chunk[j] ELSE 46]
    IN HexPad(i, 8) \o <<32, 32>> \o LJust(hex_line, bpl * 3)
           \o <<32, 32, 124>> \o ascii_line \o <<124>>

_format_hex_view(c, bpl) ==
    IF c = None \/ c = <<>> THEN <<>>
    ELSE LET nrows == (Len(c) + bpl - 1) \div bpl
         IN join(<<10>>, [r \in 1..nrows |-> HexRow(c, (r - 1) * bpl, bpl)])


(***************************************************************************)
(* The value of `ret` before any read operation has returned.              *)
(***************************************************************************)
NoRet == [op |-> "none", arg |-> 0, n |-> 0, val |-> None]

(***************************************************************************)
(* The path of the session.  _detect_file_type reads three facts of the    *)
(* path; a directory has children, whose names iterdir() yields in an      *)
(* order of its own.                                                       *)
(***************************************************************************)
_detect_file_type(exists, is_dir, is_symlink) ==
    IF ~exists THEN "not_exist"
    ELSE IF is_dir THEN "directory"
    ELSE IF is_symlink THEN "symlink"
    ELSE "file"

\* the names "a", "b", "ab" and "é"
Names == {<<97>>, <<98>>, <<97, 98>>, <<233>>}

MaxEntries == 2

Listings == {es \in UNION {[1..n -> Names] : n \in 0..MaxEntries} :
                \A i, j \in DOMAIN es : i # j => es[i] # es[j]}

Paths ==
    {[exists |-> FALSE, is_dir |-> FALSE, is_symlink |-> l, bytes |-> <<>>, children |-> <<>>] :
        l \in BOOLEAN}
    \cup {[exists |-> TRUE, is_dir |-> TRUE, is_symlink |-> l, bytes |-> <<>>, children |-> es] :
        l \in BOOLEAN, es \in Listings}
    \cup {[exists |-> TRUE, is_dir |-> FALSE, is_symlink |-> FALSE, bytes |-> f, children |-> <<>>] :
        f \in AllFiles}
    \cup {[exists |-> TRUE, is_dir |-> FALSE, is_symlink |-> TRUE, bytes |-> f, children |-> <<>>] :
        f \in {g \in AllFiles : Len(g) <= 1}}

\* __init__
Init ==
    /\ \E p \in Paths :
         /\ file = p.bytes
         /\ entries = p.children
         /\ file_type = _detect_file_type(p.exists, p.is_dir, p.is_symlink)
    /\ starts = 0
    /\ loads = 0
    /\ content = None
    /\ encoding = NoEncoding
    /\ cache = EmptyCache
    /\ load_queue = <<>>
    /\ loading_thread = "none"
    /\ load_state = "new"
    /\ bpc = "idle"
    /\ offset = 0
    /\ line_num = 0
    /\ buffer = <<>>
    /\ lines = <<>>
    /\ k = 0
    /\ rpc = "idle"
    /\ rn = 0
    /\ ri = 0
    /\ rlines = <<>>
    /\ ret = NoRet
    /\ other = <<>>
    /\ ui_pc = "list"
    /\ scroll_position = 0
    /\ visible_lines = 0

(***************************************************************************)
(* _load_directory: the sorted names, joined by "\n" and encoded.          *)
(***************************************************************************)
\* str.encode(): UTF-8, for code points below U+0800
RECURSIVE EncodeUtf8(_)
EncodeUtf8(t) ==
    IF t = <<>> THEN <<>>
    ELSE IF t[1] < 128 THEN <<t[1]>> \o EncodeUtf8(Tail(t))
    ELSE <<192 + (t[1] \div 64), 128 + (t[1] % 64)>> \o EncodeUtf8(Tail(t))

\* the order of str (and of sibling paths): by code point, a prefix first
RECURSIVE NameLess(_, _)
NameLess(x, y) ==
    IF y = <<>> THEN FALSE
    ELSE IF x = <<>> THEN TRUE
    ELSE IF x[1] # y[1] THEN x[1] < y[1]
    ELSE NameLess(Tail(x), Tail(y))

RECURSIVE Insert(_, _)
Insert(x, s) ==
    IF s = <<>> THEN <<x>>
    ELSE IF NameLess(s[1], x) THEN <<s[1]>> \o Insert(x, Tail(s))
    ELSE <<x>> \o s

\* a sort that keeps iterdir()'s order
sortedNot(es) == es

RECURSIVE sorted(_)
sorted(es) == IF es = <<>> THEN <<>> ELSE Insert(es[1], sorted(Tail(es)))

\* "\n".join(str(entry.name) for entry in sorted(entries)).encode()
_load_directory(es) == EncodeUtf8(join(<<10>>, sorted(es)))

(***************************************************************************)
(* load().  For a large file the call touches the state it shares with    *)
(* the background thread at two points: it writes self.encoding (line 44)  *)
(* and later reads loading_thread.is_alive() (line 66); the thread may run *)
(* in between, so these are two steps, load and LoadStart.  The other      *)
(* paths touch that state at one point only (the except clause writes      *)
(* self.encoding; a directory or a small file has no thread), and load is  *)
(* one step for them.                                                      *)
(***************************************************************************)
IsLarge(c) == Len(c) > chunk_size * 2

\* enumerate(lines, 1) in place of enumerate(lines)
FillCacheFromOne(c, ls) == [i \in (DOMAIN c) \cup (1..Len(ls)) |->
                               IF i <= Len(ls) THEN ls[i] ELSE c[i]]

\* for i, line in enumerate(lines): self.cache[i] = line
FillCache(c, ls) == [i \in (DOMAIN c) \cup (0..(Len(ls) - 1)) |->
                        IF i < Len(ls) THEN ls[i + 1] ELSE c[i]]

\* an except clause that raises without clearing the buffer it has read
LoadRaiseKeepsBuffer ==
    /\ content' = file
    /\ encoding' = NoEncoding
    /\ load_state' = "raised"

\* the except clause of load()
LoadRaise ==
    /\ content' = None
    /\ encoding' = NoEncoding
    /\ load_state' = "raised"

\* if self.loading_thread and self.loading_thread.is_alive(): return
_start_background_load ==
    IF loading_thread = "alive"
    THEN UNCHANGED <<loading_thread, bpc, starts>>
    ELSE /\ loading_thread' = "alive"
         /\ bpc' = "open"
         /\ starts' = starts + 1

load ==
    /\ loads' = loads + 1
    /\ \E io_ok \in BOOLEAN, r \in DetectResults :
         IF file_type = "not_exist" \/ ~io_ok
         THEN /\ LoadRaise
              /\ UNCHANGED <<cache, loading_thread, bpc, starts>>
         ELSE IF file_type = "directory"
         THEN /\ content' = _load_directory(entries)
              /\ encoding' = "utf-8"
              /\ load_state' = "returned"
              /\ UNCHANGED <<cache, loading_thread, bpc, starts>>
         ELSE LET c == file
                  enc == _detect_encoding(c, r)
                  d == Decode(c, enc)
              IN IF IsLarge(c)
                 THEN /\ content' = c
                      /\ encoding' = enc
                      /\ load_state' = "detected"
                      /\ UNCHANGED <<cache, loading_thread, bpc, starts>>
                 ELSE IF enc = NoEncoding
                 THEN /\ content' = c
                      /\ encoding' = enc
                      /\ load_state' = "returned"
                      /\ UNCHANGED <<cache, loading_thread, bpc, starts>>
                 ELSE IF d.err # "ok"
                 THEN /\ LoadRaise
                      /\ UNCHANGED <<cache, loading_thread, bpc, starts>>
                 ELSE /\ content' = c
                      /\ encoding' = enc
                      /\ cache' = FillCache(cache, splitlines(d.text))
                      /\ load_state' = "returned"
                      /\ UNCHANGED <<loading_thread, bpc, starts>>
    /\ UNCHANGED <<other, uivars, pathvars, load_queue, offset, line_num, buffer, lines, k,
                   rdvars, ret>>

\* if len(self.content) > self.chunk_size * 2: self._start_background_load()
\* return True
LoadStart ==
    /\ load_state = "detected"
    /\ _start_background_load
    /\ load_state' = "returned"
    /\ UNCHANGED <<other, uivars, pathvars, loads, content, encoding, cache, load_queue,
                   offset, line_num, buffer, lines, k, rdvars, ret>>

\* the first load() of the session
Load ==
    /\ load_state = "new"
    /\ load

MaxLoads == 2

\* a later load() on the same session
LoadAgain ==
    /\ load_state \in {"returned", "raised"}
    /\ loads < MaxLoads
    /\ load

(***************************************************************************)
(* _background_load, one step per access to the shared state.              *)
(***************************************************************************)
Chunk(f, off) == SubSeq(f, off + 1, Min(off + chunk_size, Len(f)))

\* if buffer: lines[0] = buffer.pop() + lines[0]
Stitch(buf, ls) == IF buf # <<>> THEN [ls EXCEPT ![1] = buf[1] \o ls[1]] ELSE ls

\* a loop that forgets to advance line_num
NextLineNumStuck(n) == n

\* line_num += 1
NextLineNum(n) == n + 1

\* a loop that retries from the next byte
NextOffsetByOne(o) == o + 1

\* a loop that advances twice per iteration
NextOffsetTwice(o) == o + 2 * chunk_size

\* offset += self.chunk_size
NextOffset(o) == o + chunk_size

\* The whole of _background_load as a function of the file and the session
\* encoding: the lines it leaves in the cache, in index order, when no I/O
\* error occurs.  acc are the lines written so far, buf the pending tail.
RECURSIVE BackgroundRun(_, _, _, _, _)
BackgroundRun(f, enc, off, buf, acc) ==
    IF off >= Len(f) THEN acc \o buf
    ELSE LET d == Decode(Chunk(f, off), enc)
             ls == Stitch(buf, splitlines(d.text))
         IN CASE d.err = "UnicodeDecodeError" ->
                   BackgroundRun(f, enc, NextOffset(off), buf, acc)
              [] d.err = "ok" /\ splitlines(d.text) # <<>> ->
                   BackgroundRun(f, enc, NextOffset(off), <<ls[Len(ls)]>>,
                                 acc \o SubSeq(ls, 1, Len(ls) - 1))
              [] OTHER -> acc

BackgroundLines(f, enc) == BackgroundRun(f, enc, 0, <<>>, <<>>)

\* except Exception: pass
BgFailSilent(e) ==
    /\ load_queue' = load_queue
    /\ bpc' = "failed"
    /\ UNCHANGED loading_thread

\* except Exception as e: self.load_queue.put(e)
BgFail(e) ==
    /\ load_queue' = Append(load_queue, e)
    /\ bpc' = "failed"
    /\ UNCHANGED loading_thread

\* open(self.file_path, 'rb') and mmap.mmap(...)
BgOpen ==
    /\ bpc = "open"
    /\ \E io_ok \in BOOLEAN :
         IF io_ok
         THEN bpc' = "detect" /\ UNCHANGED <<load_queue, loading_thread>>
         ELSE BgFail("OSError")
    /\ UNCHANGED <<other, uivars, pathvars, starts, loads, content, encoding, cache, load_state, offset, line_num,
                   buffer, lines, k, rdvars, ret>>

\* sample = mm[:min(self.chunk_size, len(mm))]; self.encoding = ...
BgDetect ==
    /\ bpc = "detect"
    /\ \E r \in DetectResults : encoding' = BgEncoding(r)
    /\ bpc' = "loop"
    /\ offset' = 0
    /\ line_num' = 0
    /\ buffer' = <<>>
    /\ UNCHANGED <<other, uivars, pathvars, starts, loads, content, cache, load_queue, loading_thread, load_state,
                   lines, k, rdvars, ret>>

\* while offset < len(mm): chunk = ...; text = chunk.decode(self.encoding);
\* lines = text.splitlines(); the stitching of the pending tail
BgChunk ==
    /\ bpc = "loop"
    /\ offset < Len(file)
    /\ LET d == Decode(Chunk(file, offset), encoding)
           ls == splitlines(d.text)
       IN CASE d.err = "UnicodeDecodeError" ->
                 /\ offset' = NextOffset(offset)
                 /\ UNCHANGED <<bpc, buffer, lines, k, load_queue, loading_thread>>
            [] d.err \in {"LookupError", "TypeError"} ->
                 /\ BgFail(d.err)
                 /\ UNCHANGED <<offset, buffer, lines, k>>
            [] d.err = "ok" /\ ls = <<>> ->
                 /\ BgFail("IndexError")
                 /\ buffer' = <<>>
                 /\ UNCHANGED <<offset, lines, k>>
            [] d.err = "ok" /\ ls # <<>> ->
                 /\ lines' = Stitch(buffer, ls)
                 /\ buffer' = <<>>
                 /\ k' = 1
                 /\ bpc' = "write"
                 /\ UNCHANGED <<offset, load_queue, loading_thread>>
    /\ UNCHANGED <<other, uivars, pathvars, starts, loads, content, encoding, cache, load_state, line_num,
                   rdvars, ret>>

\* for line in lines[:-1]: self.cache[line_num] = line; line_num += 1
BgWriteLine ==
    /\ bpc = "write"
    /\ k < Len(lines)
    /\ cache' = CacheSet(cache, line_num, lines[k])
    /\ line_num' = NextLineNum(line_num)
    /\ k' = k + 1
    /\ UNCHANGED <<other, uivars, pathvars, starts, loads, content, encoding, load_queue, loading_thread, load_state,
                   bpc, offset, buffer, lines, rdvars, ret>>

\* buffer = [lines[0]]
PendingTailFirst(ls) == <<ls[1]>>

\* buffer = [lines[-1]]
PendingTail(ls) == <<ls[Len(ls)]>>

\* buffer = [lines[-1]]; offset += self.chunk_size
BgTail ==
    /\ bpc = "write"
    /\ k >= Len(lines)
    /\ buffer' = PendingTail(lines)
    /\ offset' = NextOffset(offset)
    /\ lines' = <<>>
    /\ k' = 0
    /\ bpc' = "loop"
    /\ UNCHANGED <<other, uivars, pathvars, starts, loads, content, encoding, cache, load_queue, loading_thread,
                   load_state, line_num, rdvars, ret>>

\* if buffer: self.cache[line_num] = buffer[0]
BgFlush ==
    /\ bpc = "loop"
    /\ offset >= Len(file)
    /\ cache' = IF buffer # <<>> THEN CacheSet(cache, line_num, buffer[1]) ELSE cache
    /\ bpc' = "done"
    /\ UNCHANGED <<other, uivars, pathvars, starts, loads, content, encoding, load_queue, loading_thread,
                   load_state, offset, line_num, buffer, lines, k, rdvars, ret>>

\* the with blocks close the map and the file and _background_load returns:
\* from here on loading_thread.is_alive() is False
BgReturn ==
    /\ bpc \in {"done", "failed"}
    /\ loading_thread = "alive"
    /\ loading_thread' = "finished"
    /\ UNCHANGED <<other, uivars, pathvars, starts, loads, content, encoding, cache, load_queue,
                   load_state, bgvars, rdvars, ret>>

(***************************************************************************)
(* The caller's reads.  get_line_count() and get_line() are one dict       *)
(* access each; get_content() is a loop of dict accesses between which the *)
(* background thread may write.  They run on the thread that calls load(), *)
(* so none of them begins while that thread is inside load().              *)
(***************************************************************************)
MaxIndex == 3

GetLineCount ==
    /\ rpc = "idle"
    /\ load_state # "detected"
    /\ ret' = [op |-> "get_line_count", arg |-> 0, n |-> get_line_count(cache), val |-> None]
    /\ UNCHANGED <<other, uivars, pathvars, starts, loads, content, encoding, cache, load_queue, loading_thread,
                   load_state, bgvars, rdvars>>

GetLine ==
    /\ rpc = "idle"
    /\ load_state # "detected"
    /\ \E i \in 0..MaxIndex :
         ret' = [op |-> "get_line", arg |-> i, n |-> 0, val |-> get_line(cache, i)]
    /\ UNCHANGED <<other, uivars, pathvars, starts, loads, content, encoding, cache, load_queue, loading_thread,
                   load_state, bgvars, rdvars>>

\* what get_content() hands back: ("value", text or None) or ("raise", error)
ContentRet(how, n, v) == [op |-> how, arg |-> 0, n |-> n, val |-> v]

\* if not self.content: return None;  if self.cache: ...
GcStart ==
    /\ rpc = "idle"
    /\ load_state # "detected"
    /\ IF content = None \/ content = <<>>
       THEN /\ ret' = ContentRet("get_content", 0, None)
            /\ UNCHANGED rpc
       ELSE /\ rpc' = IF DOMAIN cache # {} THEN "count" ELSE "enc"
            /\ UNCHANGED ret
    /\ UNCHANGED <<other, uivars, pathvars, starts, loads, content, encoding, cache, load_queue, loading_thread,
                   load_state, bgvars, rn, ri, rlines>>

\* for i in range(self.get_line_count()):
GcCount ==
    /\ rpc = "count"
    /\ rn' = get_line_count(cache)
    /\ ri' = 0
    /\ rlines' = <<>>
    /\ rpc' = "loop"
    /\ UNCHANGED <<other, uivars, pathvars, starts, loads, content, encoding, cache, load_queue, loading_thread,
                   load_state, bgvars, ret>>

\* "if line:" in place of "if line is not None:"
AppendLineIfTrue(ls, line) == IF line # None /\ line # <<>> THEN Append(ls, line) ELSE ls

\* if line is not None: lines.append(line)
AppendLine(ls, line) == IF line # None THEN Append(ls, line) ELSE ls

\* line = self.cache.get(i); if line is not None: lines.append(line)
GcLoop ==
    /\ rpc = "loop"
    /\ ri < rn
    /\ rlines' = AppendLine(rlines, get_line(cache, ri))
    /\ ri' = ri + 1
    /\ UNCHANGED <<other, uivars, pathvars, starts, loads, content, encoding, cache, load_queue, loading_thread,
                   load_state, bgvars, rpc, rn, ret>>

\* return '\n'.join(lines)
GcJoin ==
    /\ rpc = "loop"
    /\ ri >= rn
    /\ ret' = ContentRet("get_content", rn, join(<<10>>, rlines))
    /\ rpc' = "idle"
    /\ rn' = 0
    /\ ri' = 0
    /\ rlines' = <<>>
    /\ UNCHANGED <<other, uivars, pathvars, starts, loads, content, encoding, cache, load_queue, loading_thread,
                   load_state, bgvars>>

\* if self.encoding: ... else: return self._format_hex_view()
GcEnc ==
    /\ rpc = "enc"
    /\ IF encoding # NoEncoding
       THEN /\ rpc' = "decode"
            /\ UNCHANGED ret
       ELSE /\ ret' = ContentRet("get_content", 0, _format_hex_view(content, bytes_per_line))
            /\ rpc' = "idle"
    /\ UNCHANGED <<other, uivars, pathvars, starts, loads, content, encoding, cache, load_queue, loading_thread,
                   load_state, bgvars, rn, ri, rlines>>

\* try: return self.content.decode(self.encoding)
\* except UnicodeDecodeError: pass;  return self._format_hex_view()
GcDecode ==
    /\ rpc = "decode"
    /\ LET d == Decode(content, encoding)
       IN ret' = CASE d.err = "ok" -> ContentRet("get_content", 0, d.text)
                   [] d.err = "UnicodeDecodeError" ->
                        ContentRet("get_content", 0,
                                   _format_hex_view(content, bytes_per_line))
                   [] OTHER -> ContentRet("get_content raised", 0, None)
    /\ rpc' = "idle"
    /\ UNCHANGED <<other, uivars, pathvars, starts, loads, content, encoding, cache, load_queue, loading_thread,
                   load_state, bgvars, rn, ri, rlines>>

Background ==
    \/ BgOpen
    \/ BgDetect
    \/ BgChunk
    \/ BgWriteLine
    \/ BgTail
    \/ BgFlush
    \/ BgReturn

\* load(), the background thread, and a caller of get_line_count()/get_line()
Next ==
    \/ Load
    \/ LoadStart
    \/ Background
    \/ GetLineCount
    \/ GetLine

Spec == Init /\ [][Next]_vars

\* load(), the background thread, and a caller that polls get_line_count()
NextCount ==
    \/ Load
    \/ LoadStart
    \/ Background
    \/ GetLineCount

SpecCount == Init /\ [][NextCount]_vars

\* The files of the runs in which the caller interleaves more than single
\* reads with the thread: every small file, and the large files made of "a"
\* and "\n" up to their last two bytes, which are any two bytes.
TailFiles == {f \in AllFiles :
                 IsLarge(f) => \A i \in 1..(Len(f) - 2) : f[i] \in {97, 10}}

InitTail ==
    /\ Init
    /\ file \in TailFiles

\* load(), the background thread, and a caller of get_content()
NextContent ==
    \/ Load
    \/ LoadStart
    \/ Background
    \/ GcStart
    \/ GcCount
    \/ GcLoop
    \/ GcJoin
    \/ GcEnc
    \/ GcDecode

SpecContent == InitTail /\ [][NextContent]_vars

\* a session on which load() is called again (a viewer that refreshes),
\* while or after the background thread of an earlier call runs
NextReload ==
    \/ Load
    \/ LoadStart
    \/ LoadAgain
    \/ Background

SpecReload == InitTail /\ [][NextReload]_vars

\* load() and the thread it starts, which the scheduler runs whenever it
\* can take a step
NextLive ==
    \/ Load
    \/ LoadStart
    \/ Background

SpecLive == Init /\ [][NextLive]_vars /\ WF_vars(Background)

(***************************************************************************)
(* Two sessions alive at once.  _view_file replaces self.viewer by a new   *)
(* FileViewer while the thread of the previous one may still be running.   *)
(* The variables of the model are the fields of the session that takes the *)
(* next step; `other` holds the fields of the session that waits, and the  *)
(* scheduler switches between the two.                                     *)
(***************************************************************************)
Session ==
    [file |-> file, file_type |-> file_type, entries |-> entries,
     starts |-> starts, loads |-> loads, content |-> content,
     encoding |-> encoding, cache |-> cache, load_queue |-> load_queue,
     loading_thread |-> loading_thread, load_state |-> load_state,
     bpc |-> bpc, offset |-> offset, line_num |-> line_num,
     buffer |-> buffer, lines |-> lines, k |-> k]

\* a cache dict shared by all instances (a class attribute)
FreshSessionSharedCache(p) ==
    [file |-> p.bytes, entries |-> p.children,
     file_type |-> _detect_file_type(p.exists, p.is_dir, p.is_symlink),
     starts |-> 0, loads |-> 0, content |-> None, encoding |-> NoEncoding,
     cache |-> cache, load_queue |-> <<>>, loading_thread |-> "none",
     load_state |-> "new", bpc |-> "idle", offset |-> 0, line_num |-> 0,
     buffer |-> <<>>, lines |-> <<>>, k |-> 0]

\* __init__ of a new FileViewer on the path p
FreshSession(p) ==
    [file |-> p.bytes, entries |-> p.children,
     file_type |-> _detect_file_type(p.exists, p.is_dir, p.is_symlink),
     starts |-> 0, loads |-> 0, content |-> None, encoding |-> NoEncoding,
     cache |-> EmptyCache, load_queue |-> <<>>, loading_thread |-> "none",
     load_state |-> "new", bpc |-> "idle", offset |-> 0, line_num |-> 0,
     buffer |-> <<>>, lines |-> <<>>, k |-> 0]

\* the fields of the running session become those of s
Become(s) ==
    /\ file' = s.file
    /\ file_type' = s.file_type
    /\ entries' = s.entries
    /\ starts' = s.starts
    /\ loads' = s.loads
    /\ content' = s.content
    /\ encoding' = s.encoding
    /\ cache' = s.cache
    /\ load_queue' = s.load_queue
    /\ loading_thread' = s.loading_thread
    /\ load_state' = s.load_state
    /\ bpc' = s.bpc
    /\ offset' = s.offset
    /\ line_num' = s.line_num
    /\ buffer' = s.buffer
    /\ lines' = s.lines
    /\ k' = s.k

\* "a\na\na" and "\na\n" followed by the two bytes of "é": two large files
TwoFiles == {<<97, 10, 97, 10, 97>>, <<10, 97, 10, 195, 169>>}

\* the paths viewed second: a large file, a small file, a directory
SecondPaths ==
    {p \in Paths :
        \/ p.bytes \in {<<10, 97, 10, 195, 169>>, <<97, 10>>} /\ ~p.is_symlink
        \/ p.children = << <<98>>, <<97>> >> /\ ~p.is_symlink}

InitTwo ==
    /\ Init
    /\ file_type = "file"
    /\ file \in TwoFiles

\* self.viewer = FileViewer(file_path), while the thread of the previous
\* session is alive
ViewAnother ==
    /\ other = <<>>
    /\ loading_thread = "alive"
    /\ other' = <<Session>>
    /\ \E p \in SecondPaths : Become(FreshSession(p))
    /\ UNCHANGED <<uivars, rdvars, ret>>

\* the scheduler runs the other session
Switch ==
    /\ other # <<>>
    /\ other' = <<Session>>
    /\ Become(other[1])
    /\ UNCHANGED <<uivars, rdvars, ret>>

NextTwo ==
    \/ Load
    \/ LoadStart
    \/ Background
    \/ ViewAnother
    \/ Switch

SpecTwo == InitTwo /\ [][NextTwo]_vars

(***************************************************************************)
(* The UI's _view_file (src/src/viewer_ui.py): load(), one get_content(),  *)
(* then the reading loop, one step per key, while the background thread of *)
(* the session fills the cache.                                            *)
(***************************************************************************)
\* rows of the terminal: height, _ = self.right_win.getmaxyx()
ScreenHeights == {3, 5}

Keys == {"KEY_UP", "KEY_DOWN", "KEY_PPAGE", "KEY_NPAGE", "g", "G", "q"}

MaxScroll == 5

\* content = self.viewer.get_content()
UiGetContent ==
    /\ ui_pc = "list"
    /\ load_state = "returned"
    /\ ret.op = "none"
    /\ GcStart

\* self.reading_mode = True; self.scroll_position = 0; visible_lines = height - 4
UiEnterReading ==
    /\ ui_pc = "list"
    /\ rpc = "idle"
    /\ ret.op = "get_content"
    /\ ret.val # None /\ ret.val # <<>>
    /\ ui_pc' = "reading"
    /\ scroll_position' = 0
    /\ \E height \in ScreenHeights : visible_lines' = height - 4
    /\ UNCHANGED <<other, pathvars, starts, loads, content, encoding, cache, load_queue,
                   loading_thread, load_state, bgvars, rdvars, ret>>

\* the exits before the reading loop: load() raised, `if not content: return`,
\* or get_content() raised
UiLeave ==
    /\ ui_pc = "list"
    /\ rpc = "idle"
    /\ \/ load_state = "raised"
       \/ ret.op = "get_content" /\ (ret.val = None \/ ret.val = <<>>)
       \/ ret.op = "get_content raised"
    /\ ui_pc' = "closed"
    /\ UNCHANGED <<other, scroll_position, visible_lines, pathvars, starts, loads, content,
                   encoding, cache, load_queue, loading_thread, load_state, bgvars,
                   rdvars, ret>>

\* one pass of the reading loop: ch = self.screen.getch() and its handling
Key ==
    /\ ui_pc = "reading"
    /\ scroll_position \in (0 - MaxScroll)..MaxScroll
    /\ \E ch \in Keys :
         LET total_lines == get_line_count(cache)
             max_scroll == Max({0, total_lines - visible_lines})
         IN CASE ch = "q" ->
                   ui_pc' = "closed" /\ UNCHANGED scroll_position
              [] ch = "KEY_UP" ->
                   /\ scroll_position' =
                        IF scroll_position > 0 THEN scroll_position - 1 ELSE scroll_position
                   /\ UNCHANGED ui_pc
              [] ch = "KEY_DOWN" ->
                   /\ scroll_position' =
                        IF scroll_position < max_scroll THEN scroll_position + 1
                        ELSE scroll_position
                   /\ UNCHANGED ui_pc
              [] ch = "KEY_PPAGE" ->
                   /\ scroll_position' = Max({0, scroll_position - visible_lines})
                   /\ UNCHANGED ui_pc
              [] ch = "KEY_NPAGE" ->
                   /\ scroll_position' = Min(max_scroll, scroll_position + visible_lines)
                   /\ UNCHANGED ui_pc
              [] ch = "g" ->
                   scroll_position' = 0 /\ UNCHANGED ui_pc
              [] ch = "G" ->
                   scroll_position' = max_scroll /\ UNCHANGED ui_pc
    /\ UNCHANGED <<other, visible_lines, pathvars, starts, loads, content, encoding, cache,
                   load_queue, loading_thread, load_state, bgvars, rdvars, ret>>

NextUI ==
    \/ Load
    \/ LoadStart
    \/ Background
    \/ UiGetContent
    \/ GcCount
    \/ GcLoop
    \/ GcJoin
    \/ GcEnc
    \/ GcDecode
    \/ UiEnterReading
    \/ UiLeave
    \/ Key

SpecUI == InitTail /\ [][NextUI]_vars

(***************************************************************************)
(* _format_hex_view applied to the buffer of a loaded session, for several *)
(* values of its parameter bytes_per_line.                                 *)
(***************************************************************************)
\* NUL, the four bytes around the printable range, 'A' and 0xff
HexBytes == {0, 31, 32, 65, 126, 127, 255}

MaxHexLen == 3

HexWidths == {2, bytes_per_line}

\* the session after load() of a small file whose detection was not confident
InitHex ==
    /\ file \in UNION {[1..n -> HexBytes] : n \in 0..MaxHexLen}
    /\ file_type = "file"
    /\ entries = <<>>
    /\ starts = 0
    /\ loads = 1
    /\ content = file
    /\ encoding = NoEncoding
    /\ cache = EmptyCache
    /\ load_queue = <<>>
    /\ loading_thread = "none"
    /\ load_state = "returned"
    /\ bpc = "idle"
    /\ offset = 0
    /\ line_num = 0
    /\ buffer = <<>>
    /\ lines = <<>>
    /\ k = 0
    /\ rpc = "idle"
    /\ rn = 0
    /\ ri = 0
    /\ rlines = <<>>
    /\ ret = NoRet
    /\ other = <<>>
    /\ ui_pc = "list"
    /\ scroll_position = 0
    /\ visible_lines = 0

FormatHexView ==
    /\ \E bpl \in HexWidths :
         ret' = [op |-> "_format_hex_view", arg |-> bpl, n |-> 0,
                 val |-> _format_hex_view(content, bpl)]
    /\ UNCHANGED <<other, uivars, pathvars, starts, loads, content, encoding, cache, load_queue,
                   loading_thread, load_state, bgvars, rdvars>>

SpecHex == InitHex /\ [][FormatHexView]_vars


(***************************************************************************)
(* Definitions shared by the properties.                                   *)
(***************************************************************************)
Running == {"open", "detect", "loop", "write"}

\* the cache read through get_line_count() and get_line(): the list of lines
CacheLines(c) == [i \in 1..get_line_count(c) |-> get_line(c, i - 1)]

IsPrefix(s, t) == Len(s) <= Len(t) /\ SubSeq(t, 1, Len(s)) = s

NumChunks(f) == (Len(f) + chunk_size - 1) \div chunk_size

\* The text of the file decoded in one pass under enc, without the content of
\* the chunks that do not decode under enc.
RECURSIVE OnePassText(_, _, _)
OnePassText(f, enc, off) ==
    IF off >= Len(f) THEN <<>>
    ELSE LET d == Decode(SubSeq(f, off + 1, Min(off + chunk_size, Len(f))), enc)
         IN (IF d.err = "ok" THEN d.text ELSE <<>>) \o OnePassText(f, enc, off + chunk_size)

OnePassLines(f, enc) == splitlines(OnePassText(f, enc, 0))

\* the text of chunk number b (0-based) of f under enc
ChunkText(f, enc, b) == Decode(SubSeq(f, b * chunk_size + 1,
                                      Min((b + 1) * chunk_size, Len(f))), enc)

Breaks(t) == {i \in 1..Len(t) : t[i] \in LineBreaks}

EndsWithBreak(t) == t # <<>> /\ t[Len(t)] \in LineBreaks

\* the part of t after its last line break, and the part before its first
LastPart(t) == IF Breaks(t) = {} THEN t ELSE SubSeq(t, Max(Breaks(t)) + 1, Len(t))

FirstPart(t) ==
    IF Breaks(t) = {} THEN t
    ELSE SubSeq(t, 1, (CHOOSE i \in Breaks(t) : \A j \in Breaks(t) : i <= j) - 1)

\* A line begins in chunk b and ends in chunk b+1, both decodable: chunk b
\* does not end with a line break, the line starts in chunk b (after a line
\* break of chunk b, or at its first byte: chunk b is the first chunk or the
\* chunk before it ends with a line break), and the line ends in chunk b+1
\* (at a line break of chunk b+1 or at the end of the file).
Straddles(f, enc, b) ==
    /\ b + 1 < NumChunks(f)
    /\ ChunkText(f, enc, b).err = "ok"
    /\ ChunkText(f, enc, b + 1).err = "ok"
    /\ ~EndsWithBreak(ChunkText(f, enc, b).text)
    /\ \/ Breaks(ChunkText(f, enc, b).text) # {}
       \/ b = 0
       \/ /\ ChunkText(f, enc, b - 1).err = "ok"
          /\ EndsWithBreak(ChunkText(f, enc, b - 1).text)
    /\ \/ Breaks(ChunkText(f, enc, b + 1).text) # {}
       \/ b + 1 = NumChunks(f) - 1


(***************************************************************************)
(* C1.  Once the background task of a large file is Done, get_line_count() *)
(* and get_line(i) equal the line count and the i-th line of the file      *)
(* decoded in one pass and split into lines (without the content of the    *)
(* chunks skipped as undecodable), wherever the line breaks fall relative  *)
(* to the chunk boundaries.                                                *)
(***************************************************************************)
C1_DoneMatchesOnePass ==
    bpc = "done" =>
        LET ref == OnePassLines(file, encoding)
        IN /\ get_line_count(cache) = Len(ref)
           /\ \A i \in 0..(Len(ref) - 1) : get_line(cache, i) = ref[i + 1]

(***************************************************************************)
(* C2.  Under every interleaving of the caller with the background writer  *)
(* the line count never decreases from one step to the next, the values    *)
(* returned by successive get_line_count() calls are non-decreasing, and   *)
(* a returned value is at most the final line count of the load.           *)
(***************************************************************************)
C2_CountMonotonic ==
    [][ /\ get_line_count(cache') >= get_line_count(cache)
        /\ (ret.op = "get_line_count" /\ ret'.op = "get_line_count")
              => ret'.n >= ret.n
        /\ (ret'.op = "get_line_count" /\ bpc' \in {"loop", "write", "done", "failed"})
              => ret'.n <= Len(BackgroundLines(file', encoding')) ]_vars

\* a count sampled while the load is running, already overtaken by the writer
C2_Witness ==
    /\ ret.op = "get_line_count"
    /\ ret.n >= 1
    /\ bpc \in {"loop", "write"}
    /\ get_line_count(cache) > ret.n

(***************************************************************************)
(* C3.  In every state get_line(i) is None for every i >= get_line_count(),*)
(* and while the background task runs the pending tail is not in the cache:*)
(* every written index is below line_num, the index the tail will get.     *)
(***************************************************************************)
C3_NoLineBeyondCount ==
    /\ \A i \in 0..(MaxFileLen + 1) :
          i >= get_line_count(cache) => get_line(cache, i) = None
    /\ bpc \in {"loop", "write"} => \A i \in DOMAIN cache : i < line_num

\* get_line(line_num) was called while a pending tail was held, and got None
C3_Witness ==
    /\ bpc = "loop"
    /\ buffer # <<>>
    /\ offset < Len(file)
    /\ get_line_count(cache) >= 1
    /\ ret.op = "get_line"
    /\ ret.arg = line_num
    /\ ret.val = None

(***************************************************************************)
(* C4.  The background writer writes one new index at a time, above every  *)
(* index written before, and a written entry never changes: once           *)
(* get_line(i) has returned a value it returns that value ever after.      *)
(***************************************************************************)
C4_WriteOnce ==
    [][ /\ \A i \in DOMAIN cache : i \in DOMAIN cache' /\ cache'[i] = cache[i]
        /\ (bpc # "idle" /\ cache' # cache) =>
              \E i \in (DOMAIN cache') \ (DOMAIN cache) :
                 /\ DOMAIN cache' = (DOMAIN cache) \cup {i}
                 /\ \A j \in DOMAIN cache : j < i
        /\ (ret.op = "get_line" /\ ret'.op = "get_line" /\ ret'.arg = ret.arg
              /\ ret.val # None) => ret'.val = ret.val ]_vars

\* a line read back while the writer is at work on a later index
C4_Witness ==
    /\ bpc = "write"
    /\ line_num >= 2
    /\ ret.op = "get_line"
    /\ ret.val # None
    /\ ret.arg < line_num

(***************************************************************************)
(* C5.  In every state the indices of the cache are exactly 0..n-1.        *)
(***************************************************************************)
C5_Contiguous ==
    DOMAIN cache = 0..(Cardinality(DOMAIN cache) - 1)

\* two or more entries, after a synchronous load and during a background load
C5_Witness ==
    /\ Cardinality(DOMAIN cache) >= 2
    /\ bpc \in {"idle", "write"}
    /\ load_state = "returned"


(***************************************************************************)
(* C6.  After a background load, a line that begins in one chunk and ends  *)
(* in the next (both decodable) is one cache entry whose text is the part  *)
(* in the first chunk followed by the part in the second.                  *)
(***************************************************************************)
C6_StraddlingLineIsOneEntry ==
    bpc = "done" =>
        \A b \in 0..(NumChunks(file) - 2) :
            Straddles(file, encoding, b) =>
                \E i \in DOMAIN cache :
                    cache[i] = LastPart(ChunkText(file, encoding, b).text)
                                  \o FirstPart(ChunkText(file, encoding, b + 1).text)

(***************************************************************************)
(* C7.  For a file that decodes under UTF-8 and is not above the chunking  *)
(* threshold, after load() returns the cache holds the lines of the UTF-8  *)
(* text of the file, whatever the detector reported.                       *)
(***************************************************************************)
C7_SmallUtf8FileLines ==
    (load_state = "returned" /\ ~IsLarge(file) /\ ValidUtf8(file)) =>
        LET ref == splitlines(DecodeUtf8(file))
        IN /\ get_line_count(cache) = Len(ref)
           /\ \A i \in 0..(Len(ref) - 1) : get_line(cache, i) = ref[i + 1]

(***************************************************************************)
(* C8.  While the background load runs, every get_content() result is the  *)
(* newline-join of a prefix of the final line sequence of the load, and a  *)
(* later result extends an earlier one, also for a call made before the    *)
(* first cache entry is written.                                           *)
(***************************************************************************)
C8_ContentGrows ==
    [][ (rpc # "idle" /\ rpc' = "idle" /\ bpc' \in Running /\ ret'.op = "get_content") =>
          /\ (ret.op = "get_content" /\ ret.val # None) => IsPrefix(ret.val, ret'.val)
          /\ bpc' \in {"loop", "write"} =>
                \E n \in 0..Len(BackgroundLines(file', encoding')) :
                    ret'.val = join(<<10>>, SubSeq(BackgroundLines(file', encoding'), 1, n))
      ]_vars

(***************************************************************************)
(* C9.  A get_content() that finds the cache non-empty returns the cached  *)
(* lines 0..count-1, in index order, joined by one newline, none omitted,  *)
(* where count is the line count it sampled; without a background thread   *)
(* that is the line count of the session.                                  *)
(***************************************************************************)
C9_ContentFromCache ==
    /\ rpc = "loop" =>
          /\ ri <= rn /\ rn <= get_line_count(cache)
          /\ rlines = [i \in 1..ri |-> cache[i - 1]]
    /\ (ret.op = "get_content" /\ ret.n > 0) =>
          /\ ret.n <= get_line_count(cache)
          /\ ret.val = join(<<10>>, [i \in 1..ret.n |-> cache[i - 1]])
    /\ (bpc = "idle" /\ DOMAIN cache # {}) =>
          /\ rpc \notin {"enc", "decode"}
          /\ (ret.op = "get_content" /\ ret.val # None) =>
                /\ ret.n = get_line_count(cache)
                /\ ret.val = join(<<10>>, CacheLines(cache))

\* a result built from two or more cached lines, one of them empty, returned
\* while the background thread is still writing
C9_Witness ==
    /\ ret.op = "get_content"
    /\ ret.n >= 2
    /\ \E i \in 0..(ret.n - 1) : cache[i] = <<>>
    /\ bpc \in Running
    /\ rpc = "idle"

(***************************************************************************)
(* C10.  A get_content() that finds the cache empty and the byte buffer    *)
(* present returns the decode of the buffer when an encoding is set and    *)
(* the decode succeeds, and the hex/ASCII dump otherwise; it never raises. *)
(***************************************************************************)
C10_DecodeOrHexNeverRaises ==
    [][ (rpc \in {"enc", "decode"} /\ rpc' = "idle") =>
          /\ ret'.op = "get_content"
          /\ ret'.val = IF encoding # NoEncoding /\ Decode(content, encoding).err = "ok"
                        THEN Decode(content, encoding).text
                        ELSE _format_hex_view(content, bytes_per_line)
      ]_vars

(***************************************************************************)
(* C11.  Every failing load() raises and leaves nothing behind: a load()   *)
(* on a missing path raises; a load() of a small file that returns with an *)
(* encoding has decoded the file under it (a decode error does not         *)
(* return); and after any load() that raised, the buffer and the encoding  *)
(* are unset and the call has started no background thread.                *)
(***************************************************************************)
C11_FailedLoadLeavesNothing ==
    [][loads' = loads + 1 =>
         /\ file_type = "not_exist" => load_state' = "raised"
         /\ (/\ load_state' = "returned"
             /\ file_type \in {"file", "symlink"}
             /\ ~IsLarge(file)
             /\ encoding' # NoEncoding) => Decode(file, encoding').err = "ok"
         /\ load_state' = "raised" =>
               /\ content' = None
               /\ encoding' = NoEncoding
               /\ starts' = starts
               /\ loading_thread' = loading_thread
               /\ bpc' = bpc]_vars

\* the enumeration of a directory with children failed and load() raised
C11_Witness ==
    /\ load_state = "raised"
    /\ file_type = "directory"
    /\ entries # <<>>
    /\ content = None
    /\ encoding = NoEncoding
    /\ starts = 0

(***************************************************************************)
(* C12.  A load() that does not raise, called while the background thread  *)
(* is running, is a no-op: no step it takes while the thread runs starts a *)
(* second thread or changes the buffer, the encoding, the cache or the     *)
(* state of the running thread.                                            *)
(***************************************************************************)
\* a step of the caller inside load(): its first step, or the one from line 47
LoadStep == loads' = loads + 1 \/ (load_state = "detected" /\ load_state' # "detected")

C12_LoadWhileRunningIsNoOp ==
    [][(LoadStep /\ bpc \in Running /\ load_state' \in {"detected", "returned"}) =>
         /\ starts' = starts
         /\ content' = content
         /\ encoding' = encoding
         /\ cache' = cache
         /\ load_queue' = load_queue
         /\ bgvars' = bgvars]_vars

(***************************************************************************)
(* C13.  Whatever load() calls are made on a session, its background       *)
(* thread is started at most once.                                         *)
(***************************************************************************)
C13_StartedAtMostOnce == starts <= 1

(***************************************************************************)
(* C14.  Once a background load has ended (Done or Failed), no later step  *)
(* writes to the line cache.  A second thread is started only after the    *)
(* first has ended, so starts >= 2 says that a background load has ended   *)
(* earlier.                                                                *)
(***************************************************************************)
C14_NoWriteAfterEnd ==
    [][(bpc \in {"done", "failed"} \/ starts >= 2) => cache' = cache]_vars

\* the step on which a get_content() that went past its first test returns
ContentReturns == rpc # "idle" /\ rpc' = "idle"

(***************************************************************************)
(* C15.  After a successful load() of a directory with at least one child, *)
(* the session's encoding is utf-8 and get_content() returns the names of  *)
(* the children, each once, in increasing order of name, joined by "\n".   *)
(***************************************************************************)
C15_DirectoryListing ==
    [][(/\ ContentReturns
        /\ file_type = "directory"
        /\ load_state = "returned"
        /\ entries # <<>>) =>
         LET ns == splitlines(ret'.val)
         IN /\ encoding = "utf-8"
            /\ ret'.op = "get_content"
            /\ ret'.val = join(<<10>>, ns)
            /\ Len(ns) = Len(entries)
            /\ {ns[i] : i \in DOMAIN ns} = {entries[i] : i \in DOMAIN entries}
            /\ \A i, j \in DOMAIN ns : i < j => NameLess(ns[i], ns[j])]_vars

\* iterdir() yielded "b" before "a" and get_content() returned "a\nb"
C15_Witness ==
    /\ file_type = "directory"
    /\ load_state = "returned"
    /\ entries = << <<98>>, <<97>> >>
    /\ ret.op = "get_content"
    /\ ret.val = <<97, 10, 98>>

(***************************************************************************)
(* C16.  After a successful load() of a directory, get_line_count()        *)
(* returns the number of children and get_line(i) returns the i-th name in *)
(* increasing order of name.                                               *)
(***************************************************************************)
C16_LineApiServesDirectories ==
    [][(ret' # ret /\ file_type = "directory" /\ load_state = "returned") =>
         /\ ret'.op = "get_line_count" => ret'.n = Len(entries)
         /\ (ret'.op = "get_line" /\ ret'.arg < Len(entries)) =>
               ret'.val = sorted(entries)[ret'.arg + 1]]_vars

(***************************************************************************)
(* C17.  The hex dump of n bytes with b bytes per row has ceil(n/b) rows,  *)
(* separated by "\n".  In the row of the bytes at offset o, columns 1..8   *)
(* are o in lowercase hexadecimal padded with zeros; two spaces follow;    *)
(* the next 3*b columns hold the bytes as two lowercase hexadecimal digits *)
(* each, separated by one space, then spaces; two spaces and "|" follow;   *)
(* then one character per byte, the byte itself when it is in 0x20..0x7e   *)
(* and "." otherwise; then "|".                                            *)
(***************************************************************************)
LowerHex == <<48, 49, 50, 51, 52, 53, 54, 55, 56, 57, 97, 98, 99, 100, 101, 102>>

RECURSIVE Pow16(_)
Pow16(e) == IF e = 0 THEN 1 ELSE 16 * Pow16(e - 1)

\* the character expected in column p of the row of the m bytes at offset o
HexViewChar(c, b, o, m, p) ==
    LET q == p - 10
        byte == c[o + ((q + 2) \div 3)]
    IN CASE p <= 8 -> LowerHex[((o \div Pow16(8 - p)) % 16) + 1]
         [] p \in 9..10 -> 32
         [] p \in 11..(3 * b + 10) ->
              IF q > 3 * m - 1 \/ q % 3 = 0 THEN 32
              ELSE IF q % 3 = 1 THEN LowerHex[(byte \div 16) + 1]
              ELSE LowerHex[(byte % 16) + 1]
         [] p \in (3 * b + 11)..(3 * b + 12) -> 32
         [] p = 3 * b + 13 -> 124
         [] p \in (3 * b + 14)..(3 * b + 13 + m) ->
              LET x == c[o + p - (3 * b + 13)]
              IN IF x >= 32 /\ x <= 126 THEN x ELSE 46
         [] OTHER -> 124

HexViewOk(c, b, out) ==
    LET n == Len(c)
        rows == (n + b - 1) \div b
        full == 4 * b + 15
        last == n - (rows - 1) * b
    IN IF n = 0 THEN out = <<>>
       ELSE /\ Len(out) = (rows - 1) * full + 3 * b + 14 + last
            /\ Cardinality({i \in DOMAIN out : out[i] = 10}) = rows - 1
            /\ \A r \in 0..(rows - 1) :
                 LET m == IF r = rows - 1 THEN last ELSE b
                 IN /\ r > 0 => out[r * full] = 10
                    /\ \A p \in 1..(3 * b + 14 + m) :
                         out[r * full + p] = HexViewChar(c, b, r * b, m, p)

C17_HexViewFormat ==
    ret.op = "_format_hex_view" => HexViewOk(content, ret.arg, ret.val)

\* the dump of the bytes 41 00 ff with 16 bytes per row
C17_Witness ==
    /\ content = <<65, 0, 255>>
    /\ ret.op = "_format_hex_view"
    /\ ret.arg = 16
    /\ ret.val = <<48, 48, 48, 48, 48, 48, 48, 48, 32, 32,
                   52, 49, 32, 48, 48, 32, 102, 102>>
                 \o [i \in 1..40 |-> 32]
                 \o <<32, 32, 124, 65, 46, 46, 124>>

(***************************************************************************)
(* C18.  On both paths the detected encoding is adopted only when its      *)
(* confidence is above 0.7 and utf-8 is used otherwise: a load() of a      *)
(* small non-empty file that returns has set the encoding to what this     *)
(* policy gives for some answer of the detector and has decoded the file   *)
(* under it into the cache, and the background thread leaves its detection *)
(* with an encoding that the policy gives.                                 *)
(***************************************************************************)
AdoptOrUtf8(r) == IF r.confidence > ConfidenceThreshold THEN r.encoding ELSE "utf-8"

C18_AdoptAboveThresholdElseUtf8 ==
    [][/\ (/\ loads' = loads + 1
            /\ load_state' = "returned"
            /\ file_type \in {"file", "symlink"}
            /\ file # <<>>
            /\ ~IsLarge(file)) =>
              /\ \E r \in DetectResults : encoding' = AdoptOrUtf8(r)
              /\ Decode(file, encoding').err = "ok"
              /\ CacheLines(cache') = splitlines(Decode(file, encoding').text)
       /\ (bpc = "detect" /\ bpc' = "loop") =>
              \E r \in DetectResults : encoding' = AdoptOrUtf8(r)]_vars

(***************************************************************************)
(* C19.  The encoding of a session is chosen once: after it has been set   *)
(* to a value no later step sets it to a different one (so every chunk of  *)
(* a background load is decoded under the same encoding).                  *)
(***************************************************************************)
C19_EncodingSetOnce ==
    [][encoding # NoEncoding => encoding' = encoding]_vars

(***************************************************************************)
(* C20.  When the chunk at the current offset does not decode under the    *)
(* session's encoding (UnicodeDecodeError), the step of the background     *)
(* thread writes no cache entry, leaves the next line index and the        *)
(* pending tail as they are, does not fail, and goes on with the next      *)
(* chunk offset.                                                           *)
(***************************************************************************)
C20_UndecodableChunkSkipped ==
    [][(/\ bpc = "loop"
        /\ offset < Len(file)
        /\ Decode(Chunk(file, offset), encoding).err = "UnicodeDecodeError"
        /\ bgvars' # bgvars) =>
         /\ cache' = cache
         /\ line_num' = line_num
         /\ buffer' = buffer
         /\ bpc' = "loop"
         /\ load_queue' = load_queue
         /\ loading_thread' = "alive"
         /\ offset' = offset + chunk_size]_vars

\* the chunk before the current offset did not decode and was skipped while
\* a line was cached and a tail was pending
C20_Witness ==
    /\ bpc = "loop"
    /\ offset >= 2 * chunk_size
    /\ Decode(Chunk(file, offset - chunk_size), encoding).err = "UnicodeDecodeError"
    /\ buffer # <<>>
    /\ DOMAIN cache # {}
    /\ load_queue = <<>>

(***************************************************************************)
(* C21.  When the background thread fails with an error other than a       *)
(* chunk's UnicodeDecodeError, the failing step puts one error on the      *)
(* queue and writes nothing to the cache; the failed thread does nothing   *)
(* more than return, and while the thread is Failed no step writes to the  *)
(* cache or to the queue: the entries written before the failure stay, the *)
(* pending tail is never flushed.                                          *)
(***************************************************************************)
C21_FailureWritesNothing ==
    [][/\ (bpc # "failed" /\ bpc' = "failed") =>
             /\ Len(load_queue') = Len(load_queue) + 1
             /\ SubSeq(load_queue', 1, Len(load_queue)) = load_queue
             /\ cache' = cache
       /\ bpc = "failed" =>
             /\ cache' = cache
             /\ load_queue' = load_queue
             /\ loading_thread = "alive" =>
                   /\ bgvars' = bgvars
                   /\ loading_thread' \in {"alive", "finished"}]_vars

\* the thread failed in the middle of the file, after it had cached a line
\* and while a tail was pending, and has returned; the tail is not in the
\* cache
C21_Witness ==
    /\ bpc = "failed"
    /\ loading_thread = "finished"
    /\ load_queue # <<>>
    /\ DOMAIN cache # {}
    /\ buffer # <<>>
    /\ line_num \notin DOMAIN cache

(***************************************************************************)
(* C22.  In a background load, the lines of a decoded chunk (the first one *)
(* completed by the pending tail) are cached in order, one per step at the *)
(* next unwritten index, except the last, which becomes the pending tail.  *)
(* At end of input the pending tail is written as one entry at the next    *)
(* unwritten index, so after Done the last cache entry is the tail.        *)
(***************************************************************************)
C22_LinesThenTailThenFlush ==
    [][/\ (bpc = "loop" /\ bpc' = "write") =>
             LET ls == splitlines(Decode(Chunk(file, offset), encoding).text)
             IN /\ Len(lines') = Len(ls)
                /\ \A j \in 2..Len(ls) : lines'[j] = ls[j]
                /\ lines'[1] = (IF buffer = <<>> THEN <<>> ELSE buffer[1]) \o ls[1]
       /\ (bpc = "write" /\ bpc' = "write" /\ k' # k) =>
             /\ line_num = get_line_count(cache)
             /\ DOMAIN cache' = DOMAIN cache \cup {line_num}
             /\ cache'[line_num] = lines[k]
             /\ \A i \in DOMAIN cache : cache'[i] = cache[i]
             /\ line_num' = line_num + 1
       /\ (bpc = "write" /\ bpc' = "loop") =>
             /\ buffer' = <<lines[Len(lines)]>>
             /\ cache' = cache
             /\ \A j \in 1..(Len(lines) - 1) :
                  cache[line_num - Len(lines) + j] = lines[j]
       /\ (bpc = "loop" /\ bpc' = "done") =>
             IF buffer = <<>> THEN cache' = cache
             ELSE /\ line_num = get_line_count(cache)
                  /\ DOMAIN cache' = DOMAIN cache \cup {line_num}
                  /\ \A i \in DOMAIN cache : cache'[i] = cache[i]
                  /\ get_line(cache', get_line_count(cache') - 1) = buffer[1]
                  /\ buffer' = buffer]_vars

\* Done after at least two chunks with lines: the last entry is the tail
C22_Witness ==
    /\ bpc = "done"
    /\ buffer # <<>>
    /\ get_line_count(cache) >= 3
    /\ line_num = get_line_count(cache) - 1
    /\ cache[line_num] = buffer[1]
    /\ buffer[1] # <<>>

(***************************************************************************)
(* C23.  A background load starts its loop at offset 0, every iteration    *)
(* (a decoded chunk as well as a skipped one) moves the offset forward by  *)
(* exactly chunk_size, and every started background load ends, Done or     *)
(* Failed, and its thread returns.                                         *)
(***************************************************************************)
C23_OffsetsAdvanceAndLoadEnds ==
    /\ [][/\ (bpc = "detect" /\ bpc' = "loop") => offset' = 0
          /\ offset' # offset => (bpc' = "loop" /\ offset' = offset + chunk_size)
          /\ (bpc = "write" /\ bpc' = "loop") => offset' = offset + chunk_size
          /\ (bpc = "loop" /\ bpc' = "loop" /\ bgvars' # bgvars) =>
                offset' = offset + chunk_size]_vars
    /\ (bpc \in Running) ~> (bpc \in {"done", "failed"} /\ loading_thread = "finished")

\* Done on a file of three chunks of which one did not decode
C23_Witness ==
    /\ bpc = "done"
    /\ loading_thread = "finished"
    /\ offset = NumChunks(file) * chunk_size
    /\ offset >= 3 * chunk_size
    /\ \E b \in 0..(NumChunks(file) - 1) :
         Decode(Chunk(file, b * chunk_size), encoding).err = "UnicodeDecodeError"

(***************************************************************************)
(* C25.  After load() has returned on a regular file above the chunking    *)
(* threshold, the session holds no raw byte buffer.                        *)
(***************************************************************************)
C25_NoBufferForLargeFile ==
    (/\ load_state = "returned"
     /\ file_type \in {"file", "symlink"}
     /\ IsLarge(file)) => content = None

(***************************************************************************)
(* C26.  A load() of a regular file that returns has chosen by size alone: *)
(* above 2*chunk_size bytes it has started the background thread and none  *)
(* of its steps has written to the cache; at 2*chunk_size bytes or below   *)
(* it has started no thread and the cache is complete, that is, it holds   *)
(* the lines of the file under one of the encodings.                       *)
(***************************************************************************)
CompleteCache(c, f) ==
    \E enc \in Encodings :
        /\ Decode(f, enc).err = "ok"
        /\ CacheLines(c) = splitlines(Decode(f, enc).text)

C26_StrategyBySizeAlone ==
    [][/\ (LoadStep /\ load_state' = "detected") =>
             /\ Len(file) > 2 * chunk_size
             /\ starts' = starts
             /\ cache' = cache
       /\ (/\ LoadStep
           /\ load_state' = "returned"
           /\ file_type \in {"file", "symlink"}) =>
             IF Len(file) > 2 * chunk_size
             THEN /\ starts' = starts + 1
                  /\ loading_thread' = "alive"
                  /\ cache' = cache
             ELSE /\ starts' = starts
                  /\ loading_thread' = loading_thread
                  /\ bpc' = bpc
                  /\ CompleteCache(cache', file)]_vars

(***************************************************************************)
(* C24.  With two sessions alive, a new session starts with no buffer, no  *)
(* encoding and an empty cache of its own, and every step either is a step *)
(* of the running session, which leaves all fields of the waiting session  *)
(* as they are, or is a switch to the waiting session, which changes no    *)
(* field of either.                                                        *)
(***************************************************************************)
C24_SessionsIsolated ==
    [][/\ (other = <<>> /\ other' # <<>>) =>
             /\ other' = <<Session>>
             /\ content' = None
             /\ encoding' = NoEncoding
             /\ cache' = EmptyCache
       /\ other # <<>> =>
             \/ other' = other
             \/ other' = <<Session>> /\ Session' = other[1]]_vars

\* the thread of the first session ran to its end while the second session
\* loaded a file of its own: both caches are filled and differ
C24_Witness ==
    /\ other # <<>>
    /\ other[1].file # file
    /\ {other[1].bpc, bpc} = {"done"}
    /\ DOMAIN other[1].cache # {}
    /\ DOMAIN cache # {}
    /\ other[1].cache # cache

(***************************************************************************)
(* C27.  In reading mode the scroll position stays within the text: after  *)
(* every key, 0 <= scroll_position <= max(0, get_line_count() -            *)
(* visible_lines), also while the background thread appends lines.         *)
(***************************************************************************)
C27_ScrollWithinBounds ==
    ui_pc = "reading" =>
        /\ 0 <= scroll_position
        /\ scroll_position <= Max({0, get_line_count(cache) - visible_lines})

====
